---- MODULE Spec2Model ----
(***************************************************************************)
(* Model of the multi-view renderer of src/render.py and                   *)
(* src/render_improved.py: the linear-algebra helpers                      *)
(* (rotation_from_vectors, look_at, the view tables), the mesh normaliser  *)
(* load_mesh and the per-invocation render pipeline render_views /         *)
(* render_views_improved.                                                  *)
(*                                                                         *)
(* Real numbers are fixed-point integers with Scale units per 1.0; the     *)
(* branch conditions of rotation_from_vectors (s < 1e-8, np.isclose,       *)
(* np.allclose) are decided exactly on the integer input vectors.          *)
(***************************************************************************)
EXTENDS Integers, Sequences, FiniteSets, TLC

VARIABLES
    \* ---- rotation_from_vectors applied to drawn inputs (SpecRot) ----
    vec_from,      \* first argument, an integer 3-vector
    vec_to,        \* second argument, an integer 3-vector
    rot_pc,        \* "call" before the function ran, "done" after
    rot_branch,    \* which return statement was taken
    rot_result,    \* the returned 4x4 matrix (fixed point)
    \* ---- one invocation of the render pipeline (Spec) ----
    pipeline,      \* "render_views" or "render_views_improved"
    n_views,       \* requested view count
    asset,         \* what trimesh.load yields for glb_path
    pc,            \* position in the invocation
    dir_exists,    \* out_dir exists (os.makedirs)
    mesh,          \* the merged, normalised mesh
    nodes,         \* names of the nodes in the pyrender scene
    mesh_pose,     \* pose of the mesh node
    cam_pose,      \* pose of the camera node
    lights,        \* the light rig: sequence of [pose, intensity]
    renderer,      \* offscreen context: "none", "acquired", "released"
    corners,       \* render_views: the corner list, <<>> for None
    views,         \* render_views_improved: the list of view dicts
    i,             \* loop index
    color,         \* pixel buffer returned by the last renderer.render
    files,         \* the files on disk: path -> image
    stdout,        \* lines printed, in order
    error,         \* exception that left the pipeline, if any
    out_dir,       \* the out_dir argument: a sequence of directory names
    live_contexts, \* offscreen contexts acquired and not yet released
    \* ---- the sequential solver of claude_spatial_reasoning_improved_2.py
    \* ---- (SpecDriver) ----
    d_pc,          \* position in __main__ and solve_problem_two_stage
    problem,       \* the problem number of the for loop, 0 before it
    annotated_dir, \* <outdir>/annotated exists (os.makedirs)
    ann_i,         \* loop index of generate_rotated_images
    image_paths,   \* the annotated paths collected so far
    font_installed, \* the machine has /System/Library/Fonts/Helvetica.ttc
    sessions,      \* the render invocations made: [problem, dir], in order
    output,        \* lines appended to the output file: [problem, result]
    script,        \* the solver script that is running
    mode,          \* its --mode argument: which solve function is used
    content,       \* send_to_claude: the numbered images of the last request
    \* ---- the request loops of src/benchmarks (SpecBench) ----
    bench,         \* "openai_benchmark" or "claude_benchmark"
    b_pc,          \* position in the script
    run_idx,       \* run number of the outer for loop
    question,      \* index of the current line of answer_lines, 0 before
    retry,         \* the retry counter of the while loop
    requests,      \* requests sent for the current question
    output_obj,    \* the responses recorded in this run: question -> text
    \* ---- get_meshy_model polling a remote task (SpecMeshy) ----
    m_src,         \* the file whose get_meshy_model is running
    m_pc,          \* position in get_meshy_model
    task_status,   \* status of the remote preview task
    polls,         \* status requests sent so far
    model_file,    \* output_file_path has been written
    m_error        \* the request whose raise_for_status() raised

rotvars == <<vec_from, vec_to, rot_pc, rot_branch, rot_result>>
pipevars == <<pipeline, n_views, asset, pc, dir_exists, mesh, nodes, mesh_pose,
              cam_pose, lights, renderer, corners, views, i, color, files,
              stdout, error, out_dir, live_contexts>>
drivervars == <<d_pc, problem, annotated_dir, ann_i, image_paths,
                font_installed, sessions, output, script, mode,
                content>>
benchvars == <<bench, b_pc, run_idx, question, retry, requests, output_obj>>
meshyvars == <<m_src, m_pc, task_status, polls, model_file, m_error>>
vars == <<rotvars, pipevars, drivervars, benchvars, meshyvars>>

(***************************************************************************)
(* Bounds                                                                  *)
(***************************************************************************)
\* largest requested view count drawn
MaxViews == 12
\* largest absolute component of the small input vectors of SpecRot
MaxCoord == 1

(***************************************************************************)
(* Fixed-point arithmetic                                                  *)
(***************************************************************************)
\* units per 1.0
Scale == 10000
\* tolerance of "within tolerance" comparisons, in units of 1/Scale
Tol == 20
\* largest machine integer of the checker
MaxInt == 2147483647

Abs(x) == IF x < 0 THEN -x ELSE x

Sgn(x) == IF x < 0 THEN -1 ELSE IF x > 0 THEN 1 ELSE 0

\* a / b rounded to the nearest integer, symmetric about 0 (b > 0)
RDiv(a, b) == Sgn(a) * ((Abs(a) + (b \div 2)) \div b)

RECURSIVE ISqrtRec(_, _, _)
ISqrtRec(x, lo, hi) ==
    IF hi - lo <= 1 THEN lo
    ELSE LET mid == (lo + hi) \div 2
         IN IF mid * mid <= x THEN ISqrtRec(x, mid, hi)
            ELSE ISqrtRec(x, lo, mid)

\* floor of the square root of x, 0 <= x <= MaxInt
ISqrt(x) == ISqrtRec(x, 0, 46341)

Dot(a, b) == a[1] * b[1] + a[2] * b[2] + a[3] * b[3]

Cross(a, b) == << a[2] * b[3] - a[3] * b[2],
                  a[3] * b[1] - a[1] * b[3],
                  a[1] * b[2] - a[2] * b[1] >>

Neg(a) == << -a[1], -a[2], -a[3] >>

\* a / |a| in fixed point, for a nonzero integer vector a (v /= np.linalg.norm(v))
Normalize(a) ==
    LET nn == Dot(a, a)
        m  == ISqrt(MaxInt \div nn)
        r  == ISqrt(nn * m * m)
    IN << RDiv(a[1] * m * Scale, r),
          RDiv(a[2] * m * Scale, r),
          RDiv(a[3] * m * Scale, r) >>

\* dot and cross product of two fixed-point vectors, in fixed point
FDot(a, b) == RDiv(Dot(a, b), Scale)

FCross(a, b) == LET w == Cross(a, b)
                IN << RDiv(w[1], Scale), RDiv(w[2], Scale), RDiv(w[3], Scale) >>

\* np.linalg.norm of a fixed-point vector, in fixed point
FNorm(a) == ISqrt(Dot(a, a))

\* np.eye(4)
Eye4 == << << Scale, 0, 0, 0 >>,
           << 0, Scale, 0, 0 >>,
           << 0, 0, Scale, 0 >>,
           << 0, 0, 0, Scale >> >>

\* the value standing for a floating-point nan
NaN == -999999999

\* a 3-vector with nan components
NanVec == << NaN, NaN, NaN >>

\* rotation_matrix(angle, direction) for a direction with nan components:
\* the rotation block is nan, the last row and column are untouched
NanRotation == << << NaN, NaN, NaN, 0 >>,
                  << NaN, NaN, NaN, 0 >>,
                  << NaN, NaN, NaN, 0 >>,
                  << 0, 0, 0, Scale >> >>

IsNanMatrix(M) == \E r \in 1..3 : \E c \in 1..3 : M[r][c] = NaN

\* the rotation block of a 4x4 matrix applied to a fixed-point 3-vector
Apply(M, x) ==
    IF IsNanMatrix(M) THEN NanVec ELSE
               << RDiv(M[1][1] * x[1] + M[1][2] * x[2] + M[1][3] * x[3], Scale),
                  RDiv(M[2][1] * x[1] + M[2][2] * x[2] + M[2][3] * x[3], Scale),
                  RDiv(M[3][1] * x[1] + M[3][2] * x[2] + M[3][3] * x[3], Scale) >>

\* np.dot of two 4x4 matrices
MatMul(A, B) ==
    [r \in 1..4 |-> [c \in 1..4 |->
        RDiv(A[r][1] * B[1][c] + A[r][2] * B[2][c]
             + A[r][3] * B[3][c] + A[r][4] * B[4][c], Scale)]]

\* two fixed-point vectors agree within Tol on every component
VecClose(a, b) ==
    \A k \in 1..3 : a[k] # NaN /\ b[k] # NaN /\ Abs(a[k] - b[k]) <= Tol

\* two 4x4 matrices agree within Tol on every entry
MatClose(A, B) ==
    \A r \in 1..4 : \A c \in 1..4 :
        A[r][c] # NaN /\ B[r][c] # NaN /\ Abs(A[r][c] - B[r][c]) <= Tol

(***************************************************************************)
(* trimesh.transformations.rotation_matrix(angle, direction), given the    *)
(* cosine and sine of the angle in fixed point: Rodrigues' formula as the  *)
(* library writes it, diag(cos) + outer(d, d) (1 - cos) + [d]x sin.        *)
(***************************************************************************)
rotation_matrixNoOuter(cosa, sina, direction) ==
    LET d  == Normalize(direction)
        ds == << RDiv(d[1] * sina, Scale), RDiv(d[2] * sina, Scale),
                 RDiv(d[3] * sina, Scale) >>
    IN << << cosa, -ds[3], ds[2], 0 >>,
          << ds[3], cosa, -ds[1], 0 >>,
          << -ds[2], ds[1], cosa, 0 >>,
          << 0, 0, 0, Scale >> >>

rotation_matrix(cosa, sina, direction) ==
    LET d   == Normalize(direction)
        omc == Scale - cosa
        o(r, c) == RDiv(RDiv(d[r] * d[c], Scale) * omc, Scale)
        ds  == << RDiv(d[1] * sina, Scale), RDiv(d[2] * sina, Scale),
                  RDiv(d[3] * sina, Scale) >>
    IN << << cosa + o(1, 1), o(1, 2) - ds[3], o(1, 3) + ds[2], 0 >>,
          << o(2, 1) + ds[3], cosa + o(2, 2), o(2, 3) - ds[1], 0 >>,
          << o(3, 1) - ds[2], o(3, 2) + ds[1], cosa + o(3, 3), 0 >>,
          << 0, 0, 0, Scale >> >>

(***************************************************************************)
(* rotation_from_vectors (src/render.py)                                   *)
(***************************************************************************)
\* 1 / 1e-8, the threshold of "s < 1e-8"
EpsInv == 100000000
\* np.isclose(c, -1.0) with its default rtol = 1e-5 and atol = 1e-8 holds
\* iff |c + 1| <= 1.001e-5, that is iff c < 0 and
\* 1 - c^2 <= 1 - (1 - 1.001e-5)^2 = 200198997999 / 10^16.
\* IsCloseBound(q) is floor(q * 200198997999 / 10^16), by long
\* multiplication in base 10^4 (q below 2^31 has the digits q2 q1 q0, the
\* factor the digits 2001 9899 7999; the quotient by 10^16 is what is
\* carried into the fifth digit)
IsCloseBound(q) ==
    LET B  == 10000
        q0 == q % B
        q1 == (q \div B) % B
        q2 == q \div (B * B)
        p0 == q0 * 7999
        p1 == q0 * 9899 + q1 * 7999 + (p0 \div B)
        p2 == q0 * 2001 + q1 * 9899 + q2 * 7999 + (p1 \div B)
        p3 == q1 * 2001 + q2 * 9899 + (p2 \div B)
    IN q2 * 2001 + (p3 \div B)

\* s < 1e-8, where s = |a x b| / (|a| |b|), decided on the integers:
\* |a x b|^2 * 1e16 < |a|^2 |b|^2
SBelowEps(a, b) ==
    LET wsq == Dot(Cross(a, b), Cross(a, b))
        q   == Dot(a, a) * Dot(b, b)
    IN wsq <= ((q - 1) \div EpsInv) \div EpsInv

\* np.isclose(c, -1.0), where c = a.b / (|a| |b|), decided on the integers
\* through |a x b|^2 = |a|^2 |b|^2 - (a.b)^2
IsCloseMinusOne(a, b) ==
    LET wsq == Dot(Cross(a, b), Cross(a, b))
        q   == Dot(a, a) * Dot(b, b)
    IN Dot(a, b) < 0 /\ wsq <= IsCloseBound(q)

\* np.allclose(vec_from, [1, 0, 0]) for the normalised integer vector a
AllCloseX(a) == a[1] > 0 /\ a[2] = 0 /\ a[3] = 0

\* the return statement rotation_from_vectors takes
RotBranchSignLost(a, b) ==
    IF IsCloseMinusOne(a, b) \/ IsCloseMinusOne(a, Neg(b)) THEN "opposite"
    ELSE IF SBelowEps(a, b) THEN "identity"
    ELSE "general"

RotBranch(a, b) ==
    IF SBelowEps(a, b) THEN "identity"
    ELSE IF IsCloseMinusOne(a, b) THEN "opposite"
    ELSE "general"

\* the matrix returned on the branch br
RotOnBranch(br, a, b) ==
    LET f == Normalize(a)
        t == Normalize(b)
        v == FCross(f, t)
        c == FDot(f, t)
        s == FNorm(v)
    IN IF br = "identity" THEN Eye4
       ELSE IF br = "opposite"
       THEN LET e    == IF AllCloseX(a) THEN << 0, 1, 0 >> ELSE << 1, 0, 0 >>
                axis == Cross(f, e)
            IN \* vec_from along -X: the cross product with X is the zero
               \* vector and axis /= 0.0 makes it nan
               IF Cross(a, e) = << 0, 0, 0 >> THEN NanRotation
               ELSE rotation_matrix(-Scale, 0, axis)
       ELSE LET h == ISqrt(s * s + c * c)
            IN rotation_matrix(RDiv(c * Scale, h), RDiv(s * Scale, h), v)

rotation_from_vectors(a, b) == RotOnBranch(RotBranch(a, b), a, b)

(***************************************************************************)
(* Sine and cosine of an angle given as the fraction num/den of a full     *)
(* turn (math.cos / math.sin of 2 pi num / den), in fixed point.           *)
(***************************************************************************)
\* np.pi / 2 in fixed point
HalfPi == (15708 * Scale) \div 10000

\* cos y for 0 <= y <= pi/4 (fixed point), by its Taylor series
TaylorCos(y) ==
    LET y2 == RDiv(y * y, Scale)
        t1 == RDiv(y2, 2)
        t2 == RDiv(t1 * y2, 12 * Scale)
        t3 == RDiv(t2 * y2, 30 * Scale)
    IN Scale - t1 + t2 - t3

\* sin y for 0 <= y <= pi/4 (fixed point), by its Taylor series
TaylorSin(y) ==
    LET y2 == RDiv(y * y, Scale)
        t1 == RDiv(y * y2, 6 * Scale)
        t2 == RDiv(t1 * y2, 20 * Scale)
        t3 == RDiv(t2 * y2, 42 * Scale)
    IN y - t1 + t2 - t3

\* <<cos, sin>> of the angle rem/den of a quarter turn, 0 <= rem < den
QuarterCosSin(rem, den) ==
    IF 2 * rem <= den
    THEN LET y == RDiv(HalfPi * rem, den)
         IN << TaylorCos(y), TaylorSin(y) >>
    ELSE LET y == RDiv(HalfPi * (den - rem), den)
         IN << TaylorSin(y), TaylorCos(y) >>

\* <<cos, sin>> of 2 pi num / den, den > 0
TurnCosSin(num, den) ==
    LET t  == num % den
        k  == (4 * t) \div den
        cs == QuarterCosSin((4 * t) % den, den)
    IN IF k = 0 THEN << cs[1], cs[2] >>
       ELSE IF k = 1 THEN << -cs[2], cs[1] >>
       ELSE IF k = 2 THEN << -cs[1], -cs[2] >>
       ELSE << cs[2], -cs[1] >>

\* trimesh.transformations.rotation_matrix(2 pi num / den, direction)
RotationByTurnNegated(num, den, direction) ==
    LET cs == TurnCosSin(-num, den)
    IN rotation_matrix(cs[1], cs[2], direction)

RotationByTurn(num, den, direction) ==
    LET cs == TurnCosSin(num, den)
    IN rotation_matrix(cs[1], cs[2], direction)

YAxis == << 0, 1, 0 >>
XAxis == << 1, 0, 0 >>

(***************************************************************************)
(* look_at (src/render.py, src/render_improved.py)                         *)
(***************************************************************************)
look_at(eye, target, up) ==
    LET forward == Normalize(<< target[1] - eye[1], target[2] - eye[2],
                                target[3] - eye[3] >>)
        right   == Normalize(Cross(forward, up))
        true_up == FCross(right, forward)
    IN << << right[1], right[2], right[3], eye[1] * Scale >>,
          << true_up[1], true_up[2], true_up[3], eye[2] * Scale >>,
          << -forward[1], -forward[2], -forward[3], eye[3] * Scale >>,
          << 0, 0, 0, Scale >> >>

(***************************************************************************)
(* View tables                                                             *)
(***************************************************************************)
\* a label: the text and, for the generic 'View k' labels, the number
Label(text, num) == [text |-> text, num |-> num]

\* the corner list of render_views
CubeCorners == << << -1, -1, -1 >>, << -1, -1, 1 >>, << -1, 1, -1 >>,
                  << -1, 1, 1 >>, << 1, -1, -1 >>, << 1, -1, 1 >>,
                  << 1, 1, -1 >>, << 1, 1, 1 >> >>

\* target_dir of render_views: the camera looks along -Z
TargetDir == << 0, 0, -1 >>

CardinalLabels == << "Front", "Right", "Back", "Left" >>

\* corner_angles of get_12_strategic_views: horizontal angle in eighths of
\* a turn, vertical angle in twelfths of a turn, label
CornerAnglesTiltLost == << << 1, 1, "Front-Top-Right" >>,
                           << 3, 1, "Back-Top-Right" >>,
                           << 5, 1, "Back-Top-Left" >>,
                           << 7, 1, "Front-Top-Left" >>,
                           << 1, 1, "Front-Bottom-Right" >>,
                           << 5, 1, "Back-Bottom-Left" >> >>

CornerAngles == << << 1, 1, "Front-Top-Right" >>,
                   << 3, 1, "Back-Top-Right" >>,
                   << 5, 1, "Back-Top-Left" >>,
                   << 7, 1, "Front-Top-Left" >>,
                   << 1, -1, "Front-Bottom-Right" >>,
                   << 5, -1, "Back-Bottom-Left" >> >>

get_12_strategic_views ==
    [k \in 1..4 |-> [rotation |-> RotationByTurn(k - 1, 4, YAxis),
                     label |-> Label(CardinalLabels[k], 0)]]
    \o << [rotation |-> RotationByTurn(-1, 4, XAxis), label |-> Label("Top", 0)],
          [rotation |-> RotationByTurn(1, 4, XAxis), label |-> Label("Bottom", 0)] >>
    \o [k \in 1..6 |->
          [rotation |-> MatMul(RotationByTurn(CornerAngles[k][1], 8, YAxis),
                               RotationByTurn(CornerAngles[k][2], 12, XAxis)),
           label |-> Label(CornerAngles[k][3], 0)]]

\* the fallback list of render_views_improved: n rotations about Y
UniformFan(n) ==
    [k \in 1..n |-> [rotation |-> RotationByTurn(k - 1, n, YAxis),
                     label |-> Label("View", k)]]

\* render_views: corners is the corner list when n_views == 8, else None
CornersFor(n) == IF n = 8 THEN CubeCorners ELSE << >>

\* render_views_improved: the list the loop enumerates
ViewsForFanOnly(n) == UniformFan(n)

ViewsFor(n) == IF n = 12 THEN get_12_strategic_views ELSE UniformFan(n)

\* render_views: the pose of the mesh node at loop index k (from 0)
RotFor(crn, k, n) ==
    IF crn # << >>
    THEN rotation_from_vectors(crn[k + 1], TargetDir)
    ELSE RotationByTurn(k, n, YAxis)

(***************************************************************************)
(* load_mesh (src/render.py, src/render_improved.py)                       *)
(***************************************************************************)
\* a geometry: integer vertex positions and faces indexing them from 1
Geom(vs, fs) == [vertices |-> vs, faces |-> fs]

Square == Geom(<< << 0, 0, 0 >>, << 2, 0, 0 >>, << 2, 2, 0 >>, << 0, 2, 0 >> >>,
               << << 1, 2, 3 >>, << 1, 3, 4 >> >>)
BigTriangle == Geom(<< << 0, 0, 0 >>, << 2, 0, 0 >>, << 0, 2, 1 >> >>,
                    << << 1, 2, 3 >> >>)
SmallTriangle == Geom(<< << 0, 0, 2 >>, << 1, 0, 2 >>, << 0, 1, 2 >> >>,
                      << << 1, 2, 3 >> >>)
Point == Geom(<< << 1, 1, 1 >>, << 1, 1, 1 >>, << 1, 1, 1 >> >>,
              << << 1, 2, 3 >> >>)
Slab == Geom(<< << 0, 0, 0 >>, << 3, 0, 0 >>, << 0, 1, 2 >>, << 3, 1, 2 >> >>,
             << << 1, 2, 3 >>, << 2, 4, 3 >> >>)

\* what trimesh.load can yield: its Python type and the geometries it holds
Assets == { [type |-> "Trimesh", geoms |-> << Square >>],
            [type |-> "Scene", geoms |-> << BigTriangle, SmallTriangle >>],
            [type |-> "list", geoms |-> << SmallTriangle, Square >>],
            [type |-> "Trimesh", geoms |-> << Point >>],
            [type |-> "tuple", geoms |-> << Slab, SmallTriangle >>],
            [type |-> "PointCloud", geoms |-> << Point >>] }

\* the isinstance chain of load_mesh accepts these types
Supported(t) == t \in {"Scene", "Trimesh", "list", "tuple"}

\* faces of g with every index moved up by off
Rebase(fs, off) == [k \in 1..Len(fs) |->
                      << fs[k][1] + off, fs[k][2] + off, fs[k][3] + off >>]

\* trimesh.util.concatenate: vertices appended, faces re-based
RECURSIVE concatenate(_)
concatenate(gl) ==
    IF Len(gl) = 1 THEN gl[1]
    ELSE LET rest == concatenate(Tail(gl))
         IN Geom(gl[1].vertices \o rest.vertices,
                 gl[1].faces \o Rebase(rest.faces, Len(gl[1].vertices)))

RECURSIVE SumSeq(_)
SumSeq(q) == IF q = << >> THEN 0 ELSE q[1] + SumSeq(Tail(q))

\* units per 1.0 of a triangle's doubled area
AreaScale == 1000

\* twice the area of face f of g, in units of 1/AreaScale
Area2(g, f) ==
    LET a == g.vertices[f[1]]
        b == g.vertices[f[2]]
        c == g.vertices[f[3]]
        w == Cross(<< b[1] - a[1], b[2] - a[2], b[3] - a[3] >>,
                   << c[1] - a[1], c[2] - a[2], c[3] - a[3] >>)
    IN ISqrt(Dot(w, w) * AreaScale * AreaScale)

\* three times the centre of face f of g on axis k
Centre3(g, f, k) ==
    g.vertices[f[1]][k] + g.vertices[f[2]][k] + g.vertices[f[3]][k]

\* mesh.centroid of trimesh, in fixed point: the mean of the triangle
\* centres weighted by triangle area, and their plain mean when every
\* triangle has zero area
centroidVertexMean(g) ==
    [k \in 1..3 |->
        RDiv(SumSeq([j \in 1..Len(g.vertices) |-> g.vertices[j][k]]) * Scale,
             Len(g.vertices))]

centroid(g) ==
    LET nf == Len(g.faces)
        total == SumSeq([f \in 1..nf |-> Area2(g, g.faces[f])])
    IN [k \in 1..3 |->
          IF total > 0
          THEN RDiv(SumSeq([f \in 1..nf |->
                       Area2(g, g.faces[f]) * Centre3(g, g.faces[f], k)]) * Scale,
                    3 * total)
          ELSE RDiv(SumSeq([f \in 1..nf |-> Centre3(g, g.faces[f], k)]) * Scale,
                    3 * nf)]

SeqMax(q) == CHOOSE x \in {q[k] : k \in 1..Len(q)} :
                \A y \in {q[k] : k \in 1..Len(q)} : y <= x
SeqMin(q) == CHOOSE x \in {q[k] : k \in 1..Len(q)} :
                \A y \in {q[k] : k \in 1..Len(q)} : x <= y

\* mesh.extents: the size of the bounding box of fixed-point vertices vs
extents(vs) ==
    [k \in 1..3 |-> SeqMax([j \in 1..Len(vs) |-> vs[j][k]])
                    - SeqMin([j \in 1..Len(vs) |-> vs[j][k]])]

\* mesh.apply_translation(-mesh.centroid): fixed-point vertices
Centered(g) ==
    LET c == centroid(g)
    IN [j \in 1..Len(g.vertices) |->
          [k \in 1..3 |-> g.vertices[j][k] * Scale - c[k]]]

\* mesh.apply_scale(1.0 / max(mesh.extents)) for a nonzero largest extent
ScaledPerAxis(vs) ==
    LET e == extents(vs)
    IN [j \in 1..Len(vs) |->
          [k \in 1..3 |-> IF e[k] = 0 THEN 0 ELSE RDiv(vs[j][k] * Scale, e[k])]]

Scaled(vs) ==
    LET m == SeqMax(extents(vs))
    IN [j \in 1..Len(vs) |-> [k \in 1..3 |-> RDiv(vs[j][k] * Scale, m)]]

\* the mesh before load_mesh returned one
NoMesh == [vertices |-> << >>, faces |-> << >>, finite |-> TRUE]

\* load_mesh on a supported asset whose merged mesh has a nonzero extent
NormalizedMesh(a) ==
    LET g == concatenate(a.geoms)
    IN [vertices |-> Scaled(Centered(g)), faces |-> g.faces, finite |-> TRUE]

\* load_mesh on a mesh of zero extent when apply_scale lets the infinite
\* factor 1.0 / 0.0 through: every coordinate becomes 0 * inf = nan
NanMesh(a) ==
    LET g == concatenate(a.geoms)
    IN [vertices |-> Centered(g), faces |-> g.faces, finite |-> FALSE]

\* max(mesh.extents) of the merged, centred mesh is 0
Degenerate(a) == SeqMax(extents(Centered(concatenate(a.geoms)))) = 0

(***************************************************************************)
(* The render pipeline: render_views and render_views_improved             *)
(***************************************************************************)
Pipelines == {"render_views", "render_views_improved"}

Min(a, b) == IF a <= b THEN a ELSE b

DigitStr == << "0", "1", "2", "3", "4", "5", "6", "7", "8", "9" >>

RECURSIVE Digits(_)
Digits(k) == IF k < 10 THEN << DigitStr[k + 1] >>
             ELSE Digits(k \div 10) \o << DigitStr[(k % 10) + 1] >>

\* f"{k:03d}": the decimal digits of k, zero-padded to at least 3
Fmt03d(k) == LET d == Digits(k)
             IN IF Len(d) >= 3 THEN d
                ELSE IF Len(d) = 2 THEN << "0" >> \o d
                ELSE << "0", "0" >> \o d

\* f"view_{k:03d}.png"
ViewNameOffByOne(k) == << "view_" >> \o Fmt03d(k + 1) \o << ".png" >>

ViewName(k) == << "view_" >> \o Fmt03d(k) \o << ".png" >>

\* os.path.join(dir, name): the file called name in the directory dir
join(dir, name) == [dir |-> dir, name |-> name]

\* the values callers pass for out_dir
OutDirs == { << "renders" >>, << "test_renders" >> }

\* an exception: its type, the call that raised it (the innermost frame of
\* its traceback) and the view index it carries (NoIndex: it carries none)
NoIndex == -1
Exc(type, site) == [type |-> type, site |-> site, index |-> NoIndex]
NoError == Exc("none", "none")

NoMatrix == << >>
NoImage == [pose |-> NoMatrix, cam |-> NoMatrix, lights |-> << >>]

\* the image renderer.render(scene) yields: a function of the poses of the
\* mesh and the camera and of the lights of the scene
Render(mp, cp, lg) == [pose |-> mp, cam |-> cp, lights |-> lg]

\* scene.set_pose(node, pose=pose) on the poses of the mesh and camera nodes
set_poseCamera(node, pose, poses) == [poses EXCEPT !.camera = pose]

set_pose(node, pose, poses) == [poses EXCEPT ![node] = pose]

\* 4x4 integer matrix in fixed point
Fixed(M) == [r \in 1..4 |-> [c \in 1..4 |-> M[r][c] * Scale]]

\* lights and light_poses of render_views: three lights of intensity 2.0
BasicLights ==
    << [pose |-> Eye4, intensity |-> 2 * Scale],
       [pose |-> Fixed(<< << 1, 0, 0, 0 >>, << 0, 0, -1, 0 >>,
                          << 0, 1, 0, 2 >>, << 0, 0, 0, 1 >> >>),
        intensity |-> 2 * Scale],
       [pose |-> Fixed(<< << 0, 0, 1, -2 >>, << 0, 1, 0, 2 >>,
                          << -1, 0, 0, 2 >>, << 0, 0, 0, 1 >> >>),
        intensity |-> 2 * Scale] >>

Origin == << 0, 0, 0 >>

\* create_enhanced_lighting: key, fill, back and two side lights
create_enhanced_lighting ==
    << [pose |-> look_at(<< 2, 3, 2 >>, Origin, YAxis), intensity |-> 3 * Scale],
       [pose |-> look_at(<< -2, 2, -1 >>, Origin, YAxis),
        intensity |-> (3 * Scale) \div 2],
       [pose |-> look_at(<< 0, 1, -3 >>, Origin, YAxis), intensity |-> Scale],
       [pose |-> look_at(<< 3, 0, 0 >>, Origin, YAxis),
        intensity |-> (8 * Scale) \div 10],
       [pose |-> look_at(<< -3, 0, 0 >>, Origin, YAxis),
        intensity |-> (8 * Scale) \div 10] >>

LightsFor(pl) == IF pl = "render_views" THEN BasicLights
                 ELSE create_enhanced_lighting

\* dist: 1.5 in render_views, 1.8 in render_views_improved
Dist(pl) == IF pl = "render_views" THEN (15 * Scale) \div 10
            ELSE (18 * Scale) \div 10

\* cam_pose: the identity with the eye at (0, 0, dist)
CamPose(pl) == [Eye4 EXCEPT ![3][4] = Dist(pl)]

LightNames(n) == { << "light", k >> : k \in 1..n }

\* the nodes of the scene once init has run
SceneNodes(pl) == { << "mesh", 0 >>, << "camera", 0 >> }
                  \cup LightNames(Len(LightsFor(pl)))

\* the nodes teardown removes from the scene
Removed(pl) == IF pl = "render_views"
               THEN { << "mesh", 0 >>, << "camera", 0 >> }
               ELSE { }

\* number of iterations of the per-view loop
LoopLimitShort(pl, n, vw) == IF n > 0 THEN n - 1 ELSE 0

LoopLimit(pl, n, vw) == IF pl = "render_views" THEN n ELSE Min(n, Len(vw))

\* the pose set_pose gives the mesh node at loop index k
PoseAtPrevious(pl, crn, vw, k, n) ==
    IF k = 0 THEN Eye4
    ELSE IF pl = "render_views" THEN RotFor(crn, k - 1, n)
    ELSE vw[k].rotation

PoseAt(pl, crn, vw, k, n) ==
    IF pl = "render_views" THEN RotFor(crn, k, n) ELSE vw[k + 1].rotation

\* the label printed with the saved path
LabelAt(pl, vw, k) ==
    IF pl = "render_views" THEN Label("", 0) ELSE vw[k + 1].label

PipeIdle ==
    /\ pipeline = "none"
    /\ n_views = 0
    /\ asset = [type |-> "none", geoms |-> << >>]
    /\ pc = "idle"
    /\ out_dir = << >>
    /\ dir_exists = FALSE
    /\ mesh = NoMesh
    /\ nodes = { }
    /\ mesh_pose = NoMatrix
    /\ cam_pose = NoMatrix
    /\ lights = << >>
    /\ renderer = "none"
    /\ live_contexts = 0
    /\ corners = << >>
    /\ views = << >>
    /\ i = 0
    /\ color = NoImage
    /\ files = << >>
    /\ stdout = << >>
    /\ error = NoError

\* get_meshy_model is not running
MeshyIdle ==
    /\ m_src = "none"
    /\ m_pc = "idle"
    /\ task_status = "none"
    /\ polls = 0
    /\ model_file = FALSE
    /\ m_error = "none"

\* no benchmark script is running
BenchIdle ==
    /\ bench = "none"
    /\ b_pc = "idle"
    /\ run_idx = 0
    /\ question = 0
    /\ retry = 0
    /\ requests = 0
    /\ output_obj = << >>

\* the solver is not running
DriverIdle ==
    /\ d_pc = "idle"
    /\ problem = 0
    /\ annotated_dir = FALSE
    /\ ann_i = 0
    /\ image_paths = << >>
    /\ font_installed = FALSE
    /\ sessions = << >>
    /\ output = << >>
    /\ script = "none"
    /\ mode = "none"
    /\ content = << >>

RotIdle ==
    /\ vec_from = << 0, 0, 0 >>
    /\ vec_to = << 0, 0, 0 >>
    /\ rot_pc = "idle"
    /\ rot_branch = "none"
    /\ rot_result = NoMatrix

\* the state at the entry of render_views / render_views_improved
Init ==
    /\ RotIdle
    /\ MeshyIdle
    /\ BenchIdle
    /\ DriverIdle
    /\ out_dir \in OutDirs
    /\ pipeline \in Pipelines
    /\ n_views \in 0..MaxViews
    /\ asset \in Assets
    /\ pc = "start"
    /\ dir_exists = FALSE
    /\ mesh = NoMesh
    /\ nodes = { }
    /\ mesh_pose = NoMatrix
    /\ cam_pose = NoMatrix
    /\ lights = << >>
    /\ renderer = "none"
    /\ live_contexts = 0
    /\ corners = << >>
    /\ views = << >>
    /\ i = 0
    /\ color = NoImage
    /\ files = << >>
    /\ stdout = << >>
    /\ error = NoError

\* os.makedirs(out_dir, exist_ok=True)
MakeDirs ==
    /\ pc = "start"
    /\ dir_exists' = TRUE
    /\ pc' = "load"
    /\ UNCHANGED << rotvars, benchvars, meshyvars, drivervars, out_dir,
                    pipeline, n_views, asset, mesh, nodes, mesh_pose, cam_pose,
                    lights, renderer, live_contexts, corners, views, i, color,
                    files, stdout, error >>

Raise(e) ==
    /\ pc' = "raised"
    /\ error' = e

\* load_mesh: the loaded value is neither a scene, a mesh, nor a list
LoadMeshUnsupported ==
    /\ pc = "load"
    /\ ~Supported(asset.type)
    /\ Raise(Exc("TypeError", "load_mesh"))
    /\ UNCHANGED << rotvars, benchvars, meshyvars, drivervars, out_dir,
                    pipeline, n_views, asset, dir_exists, mesh, nodes,
                    mesh_pose, cam_pose, lights, renderer, live_contexts,
                    corners, views, i, color, files, stdout >>

\* load_mesh: merge, centre, scale by 1 / max(extents)
LoadMesh ==
    /\ pc = "load"
    /\ Supported(asset.type)
    /\ ~Degenerate(asset)
    /\ mesh' = NormalizedMesh(asset)
    /\ pc' = "init"
    /\ UNCHANGED << rotvars, benchvars, meshyvars, drivervars, out_dir,
                    pipeline, n_views, asset, dir_exists, nodes, mesh_pose,
                    cam_pose, lights, renderer, live_contexts, corners, views,
                    i, color, files, stdout, error >>

\* load_mesh on a mesh of zero extent: 1.0 / max(mesh.extents) is a numpy
\* division by zero and yields inf; apply_scale(inf) either rejects the
\* non-finite factor with ValueError or applies it, by trimesh version
LoadMeshDegenerate ==
    /\ pc = "load"
    /\ Supported(asset.type)
    /\ Degenerate(asset)
    /\ \E rejects \in BOOLEAN :
          IF rejects
          THEN /\ Raise(Exc("ValueError", "apply_scale"))
               /\ UNCHANGED mesh
          ELSE /\ mesh' = NanMesh(asset)
               /\ pc' = "init"
               /\ UNCHANGED error
    /\ UNCHANGED << rotvars, benchvars, meshyvars, drivervars, out_dir,
                    pipeline, n_views, asset, dir_exists, nodes, mesh_pose,
                    cam_pose, lights, renderer, live_contexts, corners, views,
                    i, color, files, stdout >>

\* scene, mesh node, lights, camera, OffscreenRenderer, camera node and the
\* view table, up to the head of the per-view loop
InitScene ==
    /\ pc = "init"
    /\ nodes' = SceneNodes(pipeline)
    /\ mesh_pose' = Eye4
    /\ lights' = LightsFor(pipeline)
    /\ renderer' = "acquired"
    /\ live_contexts' = live_contexts + 1
    /\ cam_pose' = CamPose(pipeline)
    /\ corners' = IF pipeline = "render_views" THEN CornersFor(n_views) ELSE << >>
    /\ views' = IF pipeline = "render_views" THEN << >> ELSE ViewsFor(n_views)
    /\ i' = 0
    /\ pc' = "loop"
    /\ UNCHANGED << rotvars, benchvars, meshyvars, drivervars, out_dir,
                    pipeline, n_views, asset, dir_exists, mesh, color, files,
                    stdout, error >>

\* scene.set_pose(mesh_node, pose=...) and renderer.render(scene)
Rasterize ==
    /\ pc = "loop"
    /\ i < LoopLimit(pipeline, n_views, views)
    /\ LET poses == set_pose("mesh", PoseAt(pipeline, corners, views, i, n_views),
                             [mesh |-> mesh_pose, camera |-> cam_pose])
       IN /\ mesh_pose' = poses.mesh
          /\ cam_pose' = poses.camera
    /\ color' = Render(mesh_pose', cam_pose', lights)
    /\ pc' = "save"
    /\ UNCHANGED << rotvars, benchvars, meshyvars, drivervars, out_dir,
                    pipeline, n_views, asset, dir_exists, mesh, nodes, lights,
                    renderer, live_contexts, corners, views, i, files, stdout,
                    error >>

\* renderer.render(scene) raises: the exception leaves the function as it is
RasterizeFailsSkips ==
    /\ pc = "loop"
    /\ i < LoopLimit(pipeline, n_views, views)
    /\ mesh_pose' = PoseAt(pipeline, corners, views, i, n_views)
    /\ error' = Exc("RendererError", "renderer.render")
    /\ i' = i + 1
    /\ UNCHANGED << rotvars, benchvars, meshyvars, drivervars, out_dir,
                    pipeline, n_views, asset, dir_exists, mesh, nodes, lights,
                    renderer, live_contexts, corners, views, color, files,
                    stdout, pc, cam_pose >>

RasterizeFails ==
    /\ pc = "loop"
    /\ i < LoopLimit(pipeline, n_views, views)
    /\ LET poses == set_pose("mesh", PoseAt(pipeline, corners, views, i, n_views),
                             [mesh |-> mesh_pose, camera |-> cam_pose])
       IN /\ mesh_pose' = poses.mesh
          /\ cam_pose' = poses.camera
    /\ Raise(Exc("RendererError", "renderer.render"))
    /\ UNCHANGED << rotvars, benchvars, meshyvars, drivervars, out_dir,
                    pipeline, n_views, asset, dir_exists, mesh, nodes, lights,
                    renderer, live_contexts, corners, views, i, color, files,
                    stdout >>

\* Image.fromarray(color).save(out_path); print; next index
Save ==
    /\ pc = "save"
    /\ files' = [nm \in (DOMAIN files) \cup {join(out_dir, ViewName(i))} |->
                    IF nm = join(out_dir, ViewName(i)) THEN color
                    ELSE files[nm]]
    /\ stdout' = Append(stdout, [text |-> "Saved",
                                 path |-> join(out_dir, ViewName(i)),
                                 label |-> LabelAt(pipeline, views, i)])
    /\ i' = i + 1
    /\ pc' = "loop"
    /\ UNCHANGED << rotvars, benchvars, meshyvars, drivervars, out_dir,
                    pipeline, n_views, asset, dir_exists, mesh, nodes,
                    mesh_pose, cam_pose, lights, renderer, live_contexts,
                    corners, views, color, error >>

\* Image.save raises: the exception leaves the function as it is
SaveFails ==
    /\ pc = "save"
    /\ Raise(Exc("OSError", "Image.save"))
    /\ UNCHANGED << rotvars, benchvars, meshyvars, drivervars, out_dir,
                    pipeline, n_views, asset, dir_exists, mesh, nodes,
                    mesh_pose, cam_pose, lights, renderer, live_contexts,
                    corners, views, i, color, files, stdout >>

\* after the loop: renderer.delete(), the remove_node calls, the last print
Teardown ==
    /\ pc = "loop"
    /\ i >= LoopLimit(pipeline, n_views, views)
    /\ renderer' = "released"
    /\ live_contexts' = live_contexts - 1
    /\ nodes' = nodes \ Removed(pipeline)
    /\ stdout' = Append(stdout, [text |-> "Done", path |-> << >>,
                                 label |-> Label("", 0)])
    /\ pc' = "returned"
    /\ UNCHANGED << rotvars, benchvars, meshyvars, drivervars, out_dir,
                    pipeline, n_views, asset, dir_exists, mesh, mesh_pose,
                    cam_pose, lights, corners, views, i, color, files, error >>

Next ==
    \/ MakeDirs
    \/ LoadMeshUnsupported
    \/ LoadMesh
    \/ LoadMeshDegenerate
    \/ InitScene
    \/ Rasterize
    \/ RasterizeFails
    \/ Save
    \/ SaveFails
    \/ Teardown

Spec == Init /\ [][Next]_vars

(***************************************************************************)
(* rotation_from_vectors applied to drawn pairs of vectors                 *)
(***************************************************************************)
SmallVecs == { v \in (-MaxCoord..MaxCoord) \X (-MaxCoord..MaxCoord)
                      \X (-MaxCoord..MaxCoord) : v # << 0, 0, 0 >> }

\* vectors a hair off the X axis: with a small vector along X they make
\* the nearly parallel and nearly opposite pairs
LongVecs == { << 224, 1, 0 >>, << -224, 1, 0 >>, << 224, 0, -1 >> }

RotInputs == (SmallVecs \X SmallVecs) \cup (LongVecs \X SmallVecs)
             \cup (SmallVecs \X LongVecs)

InitRot ==
    /\ PipeIdle
    /\ MeshyIdle
    /\ BenchIdle
    /\ DriverIdle
    /\ \E p \in RotInputs : vec_from = p[1] /\ vec_to = p[2]
    /\ rot_pc = "call"
    /\ rot_branch = "none"
    /\ rot_result = NoMatrix

RotCall ==
    /\ rot_pc = "call"
    /\ rot_branch' = RotBranch(vec_from, vec_to)
    /\ rot_result' = rotation_from_vectors(vec_from, vec_to)
    /\ rot_pc' = "done"
    /\ UNCHANGED << vec_from, vec_to, pipevars, drivervars, benchvars,
                    meshyvars >>

NextRot == RotCall

SpecRot == InitRot /\ [][NextRot]_vars

(***************************************************************************)
(* The sequential solver of src/claude_spatial_reasoning_improved_2.py:    *)
(* __main__, solve_problem_two_stage, generate_rotated_images and          *)
(* annotate_image, around render_views_improved                            *)
(***************************************************************************)
\* args.end, with args.start = 1: the number of problems of a run
MaxProblems == 2

\* --mode: "two-stage" (the default) selects solve_problem_two_stage,
\* "single" solve_problem_single_stage
Modes == {"two-stage", "single"}

\* the two solver scripts with the sequential problem loop
Solvers == {"claude_spatial_reasoning_improved",
            "claude_spatial_reasoning_improved_2"}

\* the parameters of render_views_improved
RenderParameters == {"glb_path", "out_dir", "n_views", "img_size"}

\* the keyword arguments generate_rotated_images passes to it
RenderKeywords(sc) ==
    IF sc = "claude_spatial_reasoning_improved"
    THEN {"glb_path", "out_dir", "n_views", "img_size", "problem_num"}
    ELSE {"glb_path", "out_dir", "n_views", "img_size"}

\* suffix = f"_problem_{problem_num}" if problem_num else "", which only
\* claude_spatial_reasoning_improved.py puts into its file names
Suffix(sc, p) ==
    IF sc = "claude_spatial_reasoning_improved" /\ p # 0
    THEN << "_problem_" >> \o Digits(p)
    ELSE << >>

\* f"view_{i:03d}{suffix}.png"
ProblemViewName(k, sfx) ==
    IF sfx = << >> THEN ViewName(k)
    ELSE << "view_" >> \o Fmt03d(k) \o sfx \o << ".png" >>

\* f"./screenshots/cropped/{i}.png" and f"./screenshots/rotations/{i}.png"
CutoutImage(p) ==
    join(<< "screenshots", "cropped" >>, Digits(p) \o << ".png" >>)
ProblemImage(p) ==
    join(<< "screenshots", "rotations" >>, Digits(p) \o << ".png" >>)

\* reference_images = [cutout_image_path] + rotated_image_paths[:6]
reference_images(p, rotated) ==
    << CutoutImage(p) >> \o SubSeq(rotated, 1, Min(6, Len(rotated)))

\* all_images = [problem_image_path] + rotated_image_paths
all_images(p, rotated) == << ProblemImage(p) >> \o rotated

\* send_to_claude: for i, path in enumerate(image_paths, start=1), the text
\* f"Image {i}:" and then the image
Numbered(paths) == [k \in 1..Len(paths) |-> [number |-> k, path |-> paths[k]]]

\* a printed line that names no file
Line(text, num) == [text |-> text, path |-> << >>, label |-> Label("", num)]

\* view_labels of generate_rotated_images
view_labelsSwapped ==
    << "Front View", "Right View", "Back View", "Left View",
       "Bottom View", "Top View",
       "Front-Top-Right", "Back-Top-Right", "Back-Top-Left", "Front-Top-Left",
       "Front-Bottom-Right", "Back-Bottom-Left" >>

view_labels ==
    << "Front View", "Right View", "Back View", "Left View",
       "Top View", "Bottom View",
       "Front-Top-Right", "Back-Top-Right", "Back-Top-Left", "Front-Top-Left",
       "Front-Bottom-Right", "Back-Bottom-Left" >>

\* label = view_labels[i] if i < len(view_labels) else f"View {i+1}"
AnnotationLabel(k) == IF k < Len(view_labels) THEN Label(view_labels[k + 1], 0)
                      ELSE Label("View", k + 1)

\* os.path.join(annotated_dir, f"view_{i:03d}_annotated.png") with
\* annotated_dir = os.path.join(outdir, "annotated")
AnnotatedPathSame(outdir, k) == join(outdir, ViewName(k))

AnnotatedPath(outdir, k) ==
    join(Append(outdir, "annotated"),
         << "view_" >> \o Fmt03d(k) \o << "_annotated.png" >>)

\* f"view_{i:03d}_annotated{suffix}.png" in annotated_dir
ProblemAnnotatedPath(outdir, k, sfx) ==
    IF sfx = << >> THEN AnnotatedPath(outdir, k)
    ELSE join(Append(outdir, "annotated"),
              << "view_" >> \o Fmt03d(k) \o << "_annotated" >> \o sfx
                 \o << ".png" >>)

\* ImageFont.truetype("/System/Library/Fonts/Helvetica.ttc", 36): the font,
\* or the OSError it raises when the file cannot be opened
truetype(installed) == IF installed THEN "Helvetica.ttc" ELSE "OSError"

\* the try / except around it: any exception selects ImageFont.load_default()
ResolveFontNoFallback(installed) == truetype(installed)

ResolveFont(installed) ==
    IF truetype(installed) = "OSError" THEN "load_default"
    ELSE truetype(installed)

\* annotate_image: the opened image with the label drawn over it
Annotated(img, label, font) == [src |-> img, label |-> label, font |-> font]

\* the solver before its for loop: the output file holds its header
InitDriver ==
    /\ RotIdle
    /\ MeshyIdle
    /\ BenchIdle
    /\ PipeIdle
    /\ d_pc = "main"
    /\ problem = 0
    /\ annotated_dir = FALSE
    /\ ann_i = 0
    /\ image_paths = << >>
    /\ font_installed \in BOOLEAN
    /\ sessions = << >>
    /\ output = << [problem |-> 0, result |-> "header"] >>
    /\ script \in Solvers
    /\ mode \in Modes
    /\ content = << >>

\* the locals of solve_problem_two_stage and of the calls below it go out of
\* scope
ClearLocals ==
    /\ pipeline' = "none"
    /\ n_views' = 0
    /\ asset' = [type |-> "none", geoms |-> << >>]
    /\ pc' = "idle"
    /\ out_dir' = << >>
    /\ mesh' = NoMesh
    /\ nodes' = { }
    /\ mesh_pose' = NoMatrix
    /\ cam_pose' = NoMatrix
    /\ lights' = << >>
    /\ corners' = << >>
    /\ views' = << >>
    /\ i' = 0
    /\ color' = NoImage
    /\ error' = NoError
    /\ renderer' = "none"
    /\ ann_i' = 0
    /\ image_paths' = << >>
    /\ content' = << >>

\* except Exception as e: in __main__: the error line is appended to the
\* output file and the for loop goes on. No statement releases the context
\* of a render that raised: the renderer object is garbage once the handler
\* is left, and whether a finalizer then frees its context is up to the
\* library and the runtime
ExceptHandler ==
    /\ ClearLocals
    /\ \E finalized \in BOOLEAN :
          live_contexts' = IF renderer = "acquired" /\ finalized
                           THEN live_contexts - 1 ELSE live_contexts
    /\ output' = Append(output, [problem |-> problem, result |-> "ERROR"])
    /\ stdout' = Append(stdout, Line("Failed", problem))
    /\ d_pc' = "main"
    /\ UNCHANGED << rotvars, benchvars, meshyvars, dir_exists, files, problem,
                    annotated_dir, font_installed, script, mode, sessions >>

\* for i in problem_numbers: the banner, then solve_func is entered
NextProblem ==
    /\ d_pc = "main"
    /\ problem < MaxProblems
    /\ problem' = problem + 1
    /\ stdout' = Append(stdout, Line("Solving problem", problem + 1))
    /\ d_pc' = "meshy"
    /\ UNCHANGED << rotvars, benchvars, meshyvars, pipeline, n_views, asset,
                    pc, dir_exists, mesh, nodes, mesh_pose, cam_pose, lights,
                    renderer, live_contexts, corners, views, i, color, files,
                    error, out_dir, annotated_dir, ann_i, image_paths,
                    font_installed, script, mode, content, sessions, output >>

\* what trimesh.load can yield for a downloaded preview_model.glb: a scene
\* of several geometries, a mesh of zero extent, something that is no mesh
GlbAssets == { a \in Assets : a.type \in {"Scene", "PointCloud"}
                                 \/ a.geoms = << Point >> }

\* get_meshy_model wrote ./tmp/preview_model.glb: asset is what trimesh.load
\* will yield for it
GetMeshyModel ==
    /\ d_pc = "meshy"
    /\ asset' \in GlbAssets
    /\ d_pc' = "generate"
    /\ UNCHANGED << rotvars, benchvars, meshyvars, pipeline, n_views, pc,
                    dir_exists, mesh, nodes, mesh_pose, cam_pose, lights,
                    renderer, live_contexts, corners, views, i, color, files,
                    stdout, error, out_dir, problem, annotated_dir, ann_i,
                    image_paths, font_installed, script, mode, content,
                    sessions, output >>

\* get_meshy_model raises (raise_for_status, a missing cutout image)
GetMeshyModelFails ==
    /\ d_pc = "meshy"
    /\ ExceptHandler

\* generate_rotated_images(three_d_model_path, outdir="renders", n=12, ...)
\* calls render_views_improved with the keyword arguments of the script: the
\* call binds them to the parameters and enters the function, or raises
\* TypeError for a keyword the function does not have
CallRender ==
    /\ d_pc = "generate"
    /\ d_pc' = "render"
    /\ IF RenderKeywords(script) \subseteq RenderParameters
       THEN /\ pipeline' = "render_views_improved"
            /\ n_views' = 12
            /\ out_dir' = << "renders" >>
            /\ pc' = "start"
            /\ sessions' = Append(sessions, [problem |-> problem,
                                             dir |-> << "renders" >>])
            /\ UNCHANGED error
       ELSE /\ Raise(Exc("TypeError", "generate_rotated_images"))
            /\ UNCHANGED << pipeline, n_views, out_dir, sessions >>
    /\ UNCHANGED << rotvars, benchvars, meshyvars, asset, dir_exists, mesh,
                    nodes, mesh_pose, cam_pose, lights, renderer,
                    live_contexts, corners, views, i, color, files, stdout,
                    problem, annotated_dir, ann_i, image_paths, font_installed,
                    script, mode, content, output >>

\* render_views_improved returned: os.makedirs(annotated_dir, exist_ok=True)
RenderReturns ==
    /\ d_pc = "render"
    /\ pc = "returned"
    /\ annotated_dir' = TRUE
    /\ image_paths' = << >>
    /\ ann_i' = 0
    /\ d_pc' = "annotate"
    /\ UNCHANGED << rotvars, benchvars, meshyvars, pipevars, problem,
                    font_installed, script, mode, content, sessions, output >>

\* render_views_improved raised: nothing between it and __main__ catches
RenderRaises ==
    /\ d_pc = "render"
    /\ pc = "raised"
    /\ ExceptHandler

\* one turn of for i in range(n): annotate_image(img_path, label,
\* annotated_path) when img_path exists
Annotate ==
    /\ d_pc = "annotate"
    /\ ann_i < n_views
    /\ LET suffix == Suffix(script, problem)
           img_path == join(out_dir, ProblemViewName(ann_i, suffix))
           font == ResolveFont(font_installed)
           annotated_path == ProblemAnnotatedPath(out_dir, ann_i, suffix)
       IN IF img_path \notin DOMAIN files
          THEN /\ ann_i' = ann_i + 1
               /\ UNCHANGED << rotvars, benchvars, meshyvars, pipevars, d_pc,
                               problem, annotated_dir, image_paths,
                               font_installed, script, mode, content, sessions,
                               output >>
          ELSE IF font = "OSError"
          THEN ExceptHandler
          ELSE /\ files' = [p \in (DOMAIN files) \cup {annotated_path} |->
                              IF p = annotated_path
                              THEN Annotated(files[img_path],
                                             AnnotationLabel(ann_i), font)
                              ELSE files[p]]
               /\ image_paths' = Append(image_paths, annotated_path)
               /\ ann_i' = ann_i + 1
               /\ UNCHANGED << rotvars, benchvars, meshyvars, pipeline,
                               n_views, asset, pc, dir_exists, mesh, nodes,
                               mesh_pose, cam_pose, lights, renderer,
                               live_contexts, corners, views, i, color, stdout,
                               error, out_dir, d_pc, problem, annotated_dir,
                               font_installed, script, mode, content, sessions,
                               output >>

\* after the loop: the count is printed and the paths returned to the
\* solve function: solve_problem_two_stage announces stage 1,
\* solve_problem_single_stage goes on to its one request
AnnotateDone ==
    /\ d_pc = "annotate"
    /\ ann_i >= n_views
    /\ IF mode = "two-stage"
       THEN /\ stdout' = stdout \o << Line("Generated", Len(image_paths)),
                                      Line("Stage 1", 0) >>
            /\ d_pc' = "stage1"
       ELSE /\ stdout' = Append(stdout, Line("Generated", Len(image_paths)))
            /\ d_pc' = "single_send"
    /\ UNCHANGED << rotvars, benchvars, meshyvars, pipeline, n_views, asset,
                    pc, dir_exists, mesh, nodes, mesh_pose, cam_pose, lights,
                    renderer, live_contexts, corners, views, i, color, files,
                    error, out_dir, problem, annotated_dir, ann_i, image_paths,
                    font_installed, script, mode, content, sessions, output >>

\* send_to_claude(stage1_prompt, [cutout] + rotated_image_paths[:6]) builds
\* its content, every image preceded by its number, and waits in
\* client.messages.create
Stage1 ==
    /\ d_pc = "stage1"
    /\ content' = Numbered(reference_images(problem, image_paths))
    /\ d_pc' = "stage1_wait"
    /\ UNCHANGED << rotvars, benchvars, meshyvars, pipevars, problem,
                    annotated_dir, ann_i, image_paths, font_installed, script,
                    mode, sessions, output >>

\* the request of stage 1 was answered: the description is printed and
\* stage 2 is announced with its image count
Stage1Answered ==
    /\ d_pc = "stage1_wait"
    /\ stdout' = stdout \o << Line("Stage 1 description", 0),
                              Line("Stage 2", 1 + Len(image_paths)) >>
    /\ d_pc' = "stage2"
    /\ UNCHANGED << rotvars, benchvars, meshyvars, pipeline, n_views, asset,
                    pc, dir_exists, mesh, nodes, mesh_pose, cam_pose, lights,
                    renderer, live_contexts, corners, views, i, color, files,
                    error, out_dir, problem, annotated_dir, ann_i, image_paths,
                    font_installed, script, mode, content, sessions, output >>

\* send_to_claude(stage2_prompt, [problem_image] + rotated_image_paths)
\* builds its content: every image preceded by its number
Stage2 ==
    /\ d_pc = "stage2"
    /\ content' = Numbered(all_images(problem, image_paths))
    /\ d_pc' = "respond"
    /\ UNCHANGED << rotvars, benchvars, meshyvars, pipevars, problem,
                    annotated_dir, ann_i, image_paths, font_installed, script,
                    mode, sessions, output >>

\* solve_problem_single_stage: send_to_claude(prompt, [problem_image] +
\* rotated_image_paths) builds its content, every image preceded by its
\* number; it is the only request of the problem
SingleStage ==
    /\ d_pc = "single_send"
    /\ content' = Numbered(all_images(problem, image_paths))
    /\ d_pc' = "respond"
    /\ UNCHANGED << rotvars, benchvars, meshyvars, pipevars, problem,
                    annotated_dir, ann_i, image_paths, font_installed, script,
                    mode, sessions, output >>

\* the last request of the problem was answered: the response is appended
\* to the output file and solve_func has returned
Completed ==
    /\ d_pc = "respond"
    /\ ClearLocals
    /\ output' = Append(output, [problem |-> problem, result |-> "response"])
    /\ stdout' = Append(stdout, Line("Completed", problem))
    /\ d_pc' = "main"
    /\ UNCHANGED << rotvars, benchvars, meshyvars, dir_exists, live_contexts,
                    files, problem, annotated_dir, font_installed, script,
                    mode, sessions >>

\* send_to_claude raises in any of the requests: while it builds the
\* content (an image file is missing) or in client.messages.create
SendFails ==
    /\ d_pc \in {"stage1", "stage1_wait", "stage2", "single_send", "respond"}
    /\ ExceptHandler

\* the for loop is exhausted: the summary is printed
Finish ==
    /\ d_pc = "main"
    /\ problem >= MaxProblems
    /\ stdout' = Append(stdout, Line("All problems completed",
                                     Len(SelectSeq(output,
                                           LAMBDA o : o.result = "response"))))
    /\ d_pc' = "done"
    /\ UNCHANGED << rotvars, benchvars, meshyvars, pipeline, n_views, asset,
                    pc, dir_exists, mesh, nodes, mesh_pose, cam_pose, lights,
                    renderer, live_contexts, corners, views, i, color, files,
                    error, out_dir, problem, annotated_dir, ann_i, image_paths,
                    font_installed, script, mode, content, sessions, output >>

NextDriver ==
    \/ NextProblem
    \/ GetMeshyModel
    \/ GetMeshyModelFails
    \/ CallRender
    \/ MakeDirs
    \/ LoadMeshUnsupported
    \/ LoadMesh
    \/ LoadMeshDegenerate
    \/ InitScene
    \/ Rasterize
    \/ RasterizeFails
    \/ Save
    \/ SaveFails
    \/ Teardown
    \/ RenderReturns
    \/ RenderRaises
    \/ Annotate
    \/ AnnotateDone
    \/ Stage1
    \/ Stage1Answered
    \/ Stage2
    \/ SingleStage
    \/ Completed
    \/ SendFails
    \/ Finish

SpecDriver == InitDriver /\ [][NextDriver]_vars

(***************************************************************************)
(* The request loops of src/benchmarks/openai_benchmark.py and             *)
(* src/benchmarks/claude_benchmark.py                                      *)
(***************************************************************************)
Benchmarks == {"openai_benchmark", "claude_benchmark"}

\* range(1, 6): the runs of a script
Runs == 5

\* while retry < 5
MaxRetries == 5

\* len(answer_lines): the questions of the answer key
MaxQuestions == 2

\* the requests for one question the model follows before it stops counting
MaxRequests == 7

\* retry after a response that was too long: claude_benchmark.py increments
\* it in the body of the while loop; in openai_benchmark.py the increment is
\* indented one level less and is not part of the loop
RetryAfterTooLong(b, r) == IF b = "claude_benchmark" THEN r + 1 ELSE r

\* retry when the while loop has been left: the statement after the loop of
\* openai_benchmark.py
RetryAfterLoop(b, r) == IF b = "openai_benchmark" THEN r + 1 ELSE r

\* len(response.strip()) <= 3
Accepted(text) == text = "short"

InitBench ==
    /\ RotIdle
    /\ MeshyIdle
    /\ PipeIdle
    /\ DriverIdle
    /\ bench \in Benchmarks
    /\ b_pc = "for"
    /\ run_idx = 1
    /\ question = 0
    /\ retry = 0
    /\ requests = 0
    /\ output_obj = << >>

\* for line in answer_lines: the next question, retry = 0
NextQuestion ==
    /\ b_pc = "for"
    /\ question < MaxQuestions
    /\ question' = question + 1
    /\ retry' = 0
    /\ requests' = 0
    /\ b_pc' = "while"
    /\ UNCHANGED << rotvars, meshyvars, pipevars, drivervars, bench, run_idx,
                    output_obj >>

\* one turn of while retry < 5: the request is sent, the response recorded,
\* a short response leaves the loop, a long one is retried
Request ==
    /\ b_pc = "while"
    /\ retry < MaxRetries
    /\ requests < MaxRequests
    /\ requests' = requests + 1
    /\ \E response \in {"short", "long"} :
          /\ output_obj' = [x \in (DOMAIN output_obj) \cup {question} |->
                               IF x = question THEN response ELSE output_obj[x]]
          /\ IF Accepted(response)
             THEN /\ retry' = RetryAfterLoop(bench, retry)
                  /\ b_pc' = "for"
             ELSE /\ retry' = RetryAfterTooLong(bench, retry)
                  /\ b_pc' = "while"
    /\ UNCHANGED << rotvars, meshyvars, pipevars, drivervars, bench, run_idx,
                    question >>

\* the while condition is false: the loop is left without a break
GiveUp ==
    /\ b_pc = "while"
    /\ retry >= MaxRetries
    /\ retry' = RetryAfterLoop(bench, retry)
    /\ b_pc' = "for"
    /\ UNCHANGED << rotvars, meshyvars, pipevars, drivervars, bench, run_idx,
                    question, requests, output_obj >>

\* the questions are exhausted: the run's responses are written and the
\* next run starts with an empty output_obj
WriteRun ==
    /\ b_pc = "for"
    /\ question >= MaxQuestions
    /\ IF run_idx < Runs
       THEN /\ run_idx' = run_idx + 1
            /\ question' = 0
            /\ output_obj' = << >>
            /\ UNCHANGED b_pc
       ELSE /\ b_pc' = "done"
            /\ UNCHANGED << run_idx, question, output_obj >>
    /\ UNCHANGED << rotvars, meshyvars, pipevars, drivervars, bench, retry,
                    requests >>

NextBench ==
    \/ NextQuestion
    \/ Request
    \/ GiveUp
    \/ WriteRun

SpecBench == InitBench /\ [][NextBench]_vars

(***************************************************************************)
(* Properties                                                              *)
(***************************************************************************)
\* the invocation has left the pipeline, by return or by exception
Exited == pc \in {"returned", "raised"}

MeshNode == << "mesh", 0 >>
CameraNode == << "camera", 0 >>

\* the path of view file j, j < 1000, spelled digit by digit
PathOf(j) == [dir |-> out_dir,
              name |-> << "view_", DigitStr[(j \div 100) + 1],
                          DigitStr[((j \div 10) % 10) + 1],
                          DigitStr[(j % 10) + 1], ".png" >>]

\* C1: on every exit path of the pipeline, exceptions raised by the
\* rasterize or save step included, the rasterization context acquired
\* during init has been released.
C1_ContextReleasedOnEveryExit == Exited => renderer # "acquired"

\* C2: when the pipeline returns normally, the rasterization context is
\* released and the mesh node and the camera node are out of the scene.
C2_TeardownReleasesAndRemoves ==
    pc = "returned" =>
        /\ renderer = "released"
        /\ MeshNode \notin nodes
        /\ CameraNode \notin nodes

\* C3: an invocation that completes without error has written exactly
\* n_views view files.
C3_WritesNFiles == pc = "returned" => Cardinality(DOMAIN files) = n_views

C3_Witness ==
    /\ pc = "returned"
    /\ n_views = 8
    /\ pipeline = "render_views"
    /\ Cardinality(DOMAIN files) = 8

\* the rotation of ViewSpec j of the running invocation
ViewSpecRotation(j) ==
    IF pipeline = "render_views"
    THEN (IF corners # << >>
          THEN rotation_from_vectors(CubeCorners[j + 1], TargetDir)
          ELSE RotationByTurn(j, n_views, YAxis))
    ELSE views[j + 1].rotation

\* C4: at every point of the loop the files written are the contiguous
\* prefix view_000 .. view_(k-1), they were written in index order, and
\* file j holds the image rasterized under the rotation of ViewSpec j.
C4_OrderedPrefix ==
    \E k \in 0..n_views :
        /\ DOMAIN files = { PathOf(j) : j \in 0..(k - 1) }
        /\ \A j \in 0..(k - 1) :
              /\ stdout[j + 1].text = "Saved"
              /\ stdout[j + 1].path = PathOf(j)
              /\ files[PathOf(j)].pose = ViewSpecRotation(j)
        /\ \A m \in 1..Len(stdout) : stdout[m].text = "Saved" => m <= k

C4_Witness ==
    /\ pc = "loop"
    /\ i = 3
    /\ n_views = 6
    /\ DOMAIN files = { PathOf(0), PathOf(1), PathOf(2) }

\* every vertex of every geometry of the asset is the same point
Coincident(a) ==
    \A g \in 1..Len(a.geoms) : \A h \in 1..Len(a.geoms) :
        \A v \in 1..Len(a.geoms[g].vertices) :
            \A w \in 1..Len(a.geoms[h].vertices) :
                a.geoms[g].vertices[v] = a.geoms[h].vertices[w]

IsMeshType(t) == t \in {"Scene", "Trimesh", "list", "tuple"}

\* C5: a loaded mesh whose vertices all coincide makes the invocation fail
\* with DegenerateMeshError, and no view file is written.
C5_DegenerateMeshFails ==
    (IsMeshType(asset.type) /\ Coincident(asset) /\ pc \notin {"start", "load"})
        => /\ pc = "raised"
           /\ error.type = "DegenerateMeshError"
           /\ files = << >>

\* C6: a loaded value that is no scene, mesh or list of meshes
\* makes load_mesh fail with UnsupportedAssetError, and no view is rendered.
C6_UnsupportedAssetError ==
    (~IsMeshType(asset.type) /\ pc \notin {"start", "load"})
        => /\ pc = "raised"
           /\ error.type = "UnsupportedAssetError"
           /\ color = NoImage
           /\ files = << >>

\* C7: a rasterization failure at view index k reaches the caller as a
\* RenderFailure that carries k.
C7_RenderFailureCarriesIndex ==
    (pc = "raised" /\ error.site = "renderer.render")
        => /\ error.type = "RenderFailure"
           /\ error.index = i

\* corner k, k in 0..7, of the cube: one sign combination per k
SignCorner(k) == << 2 * ((k \div 4) % 2) - 1, 2 * ((k \div 2) % 2) - 1,
                    2 * (k % 2) - 1 >>

\* the analytic rotation about Y by num/den of a turn
YRot(num, den) ==
    LET cs == TurnCosSin(num, den)
    IN << << cs[1], 0, cs[2], 0 >>,
          << 0, Scale, 0, 0 >>,
          << -cs[2], 0, cs[1], 0 >>,
          << 0, 0, 0, Scale >> >>

\* the analytic rotation about X by num/den of a turn
XRot(num, den) ==
    LET cs == TurnCosSin(num, den)
    IN << << Scale, 0, 0, 0 >>,
          << 0, cs[1], -cs[2], 0 >>,
          << 0, cs[2], cs[1], 0 >>,
          << 0, 0, 0, Scale >> >>

\* M maps corner k onto the camera-forward axis (0, 0, -1)
IsCornerPose(M, k) ==
    k < 8 /\ VecClose(Apply(M, Normalize(SignCorner(k))), << 0, 0, -Scale >>)

\* M is entry k of the uniform fan of n rotations about Y
IsFanPose(M, k, n) == MatClose(M, YRot(k, n))

\* horizontal eighths and vertical twelfths of a turn of oblique entry k
ObliqueH == << 1, 3, 5, 7, 1, 5 >>
ObliqueV == << 1, 1, 1, 1, -1, -1 >>

\* M is entry k of the strategic 12-view table
IsStrategicPose(M, k) ==
    IF k < 4 THEN MatClose(M, YRot(k, 4))
    ELSE IF k = 4 THEN MatClose(M, XRot(-1, 4))
    ELSE IF k = 5 THEN MatClose(M, XRot(1, 4))
    ELSE k < 12 /\ MatClose(M, MatMul(YRot(ObliqueH[k - 5], 8),
                                      XRot(ObliqueV[k - 5], 12)))

\* every view file written so far holds a pose of the table T(j)
FilesFollow(T(_)) ==
    \A j \in 0..(n_views - 1) :
        PathOf(j) \in DOMAIN files => T(j)

\* C8 as stated: in each entry point n alone selects the table: n = 8 the
\* cube corners, n = 12 the strategic table, any other n the uniform fan.
C8_TableByNAlone ==
    LET T(j) == IF n_views = 8 THEN IsCornerPose(files[PathOf(j)].pose, j)
                ELSE IF n_views = 12
                THEN IsStrategicPose(files[PathOf(j)].pose, j)
                ELSE IsFanPose(files[PathOf(j)].pose, j, n_views)
    IN FilesFollow(T)

\* C8 amended: render_views uses the cube corners for n = 8 and the
\* uniform fan for any other n (12 included); render_views_improved uses
\* the strategic table for n = 12 and the uniform fan for any other n
\* (8 included).
C8_TableByEntryPointAndN ==
    LET T(j) ==
            IF pipeline = "render_views"
            THEN (IF n_views = 8 THEN IsCornerPose(files[PathOf(j)].pose, j)
                  ELSE IsFanPose(files[PathOf(j)].pose, j, n_views))
            ELSE (IF n_views = 12
                  THEN IsStrategicPose(files[PathOf(j)].pose, j)
                  ELSE IsFanPose(files[PathOf(j)].pose, j, n_views))
    IN FilesFollow(T)

C8_Witness ==
    /\ pc = "returned"
    /\ pipeline = "render_views_improved"
    /\ n_views = 12
    /\ PathOf(11) \in DOMAIN files
    /\ IsStrategicPose(files[PathOf(11)].pose, 11)
    /\ ~IsFanPose(files[PathOf(11)].pose, 11, 12)

\* C9: rotation_from_vectors(a, -a) is a half turn: applied to the
\* direction of a it yields the direction of -a, within tolerance.
C9_OppositeIsHalfTurn ==
    (rot_pc = "done" /\ vec_to = Neg(vec_from))
        => VecClose(Apply(rot_result, Normalize(vec_from)),
                    Neg(Normalize(vec_from)))

\* C10: rotation_from_vectors(a, a) is the identity transform.
C10_SameIsIdentity ==
    (rot_pc = "done" /\ vec_to = vec_from)
        => \A r \in 1..4 : \A c \in 1..4 :
              rot_result[r][c] = IF r = c THEN Scale ELSE 0

C10_Witness ==
    /\ rot_pc = "done"
    /\ vec_from = << 1, -1, 1 >>
    /\ vec_to = vec_from
    /\ rot_branch = "identity"
    /\ rot_result[1][1] = Scale

\* C11: for non-parallel nonzero a and b, rotation_from_vectors(a, b)
\* applied to the direction of a yields the direction of b, within
\* tolerance.
C11_MapsFromOntoTo ==
    (rot_pc = "done" /\ Cross(vec_from, vec_to) # << 0, 0, 0 >>)
        => VecClose(Apply(rot_result, Normalize(vec_from)), Normalize(vec_to))

\* the determinant of the rotation block of M, in fixed point
Det3(M) ==
    RDiv(M[1][1] * RDiv(M[2][2] * M[3][3] - M[2][3] * M[3][2], Scale)
         - M[1][2] * RDiv(M[2][1] * M[3][3] - M[2][3] * M[3][1], Scale)
         + M[1][3] * RDiv(M[2][1] * M[3][2] - M[2][2] * M[3][1], Scale), Scale)

\* M is a proper rotation: rows and columns of the 3x3 block orthonormal,
\* determinant +1, no translation, last row (0, 0, 0, 1)
IsProperRotation(M) ==
    /\ \A r \in 1..3 : \A c \in 1..3 :
          /\ Abs(RDiv(M[r][1] * M[c][1] + M[r][2] * M[c][2] + M[r][3] * M[c][3],
                      Scale) - (IF r = c THEN Scale ELSE 0)) <= Tol
          /\ Abs(RDiv(M[1][r] * M[1][c] + M[2][r] * M[2][c] + M[3][r] * M[3][c],
                      Scale) - (IF r = c THEN Scale ELSE 0)) <= Tol
    /\ Abs(Det3(M) - Scale) <= Tol
    /\ \A r \in 1..3 : M[r][4] = 0
    /\ M[4] = << 0, 0, 0, Scale >>

\* C12: every rotation of every view table in use (cube corners, strategic
\* 12 views with the composed oblique entries, uniform fan) is a proper
\* rotation.
C12_ProperRotations ==
    /\ mesh_pose # NoMatrix => IsProperRotation(mesh_pose)
    /\ \A k \in 1..Len(views) : IsProperRotation(views[k].rotation)
    /\ \A p \in DOMAIN files : IsProperRotation(files[p].pose)

C12_Witness ==
    /\ pc = "returned"
    /\ pipeline = "render_views_improved"
    /\ n_views = 12
    /\ IsProperRotation(files[PathOf(11)].pose)
    /\ files[PathOf(11)].pose # Eye4
    /\ IsProperRotation(files[PathOf(6)].pose)

\* the integer matrix of a quarter-turn rotation about Y, in fixed point:
\* k quarter turns, k in 0..3
QuarterTurnY(k) ==
    LET c == IF k = 0 THEN 1 ELSE IF k = 2 THEN -1 ELSE 0
        s == IF k = 1 THEN 1 ELSE IF k = 3 THEN -1 ELSE 0
    IN << << c * Scale, 0, s * Scale, 0 >>,
          << 0, Scale, 0, 0 >>,
          << -s * Scale, 0, c * Scale, 0 >>,
          << 0, 0, 0, Scale >> >>

\* C13: render_views_improved with n = 12 writes twelve files, and the
\* rotations of views 0, 1, 2, 3 are the analytic rotations about Y by
\* 0, 90, 180 and 270 degrees, in that order.
C13_FirstFourCardinal ==
    (pc = "returned" /\ pipeline = "render_views_improved" /\ n_views = 12)
        => /\ Cardinality(DOMAIN files) = 12
           /\ \A k \in 0..3 : MatClose(files[PathOf(k)].pose, QuarterTurnY(k))

C13_Witness ==
    /\ pc = "returned"
    /\ pipeline = "render_views_improved"
    /\ n_views = 12
    /\ files[PathOf(1)].pose[1][3] = Scale
    /\ files[PathOf(3)].pose[1][3] = -Scale

\* the mean of the vertex positions of a fixed-point mesh
VertexMean(m) ==
    [k \in 1..3 |->
        RDiv(SumSeq([j \in 1..Len(m.vertices) |-> m.vertices[j][k]]),
             Len(m.vertices))]

\* twice the area of face f of a fixed-point mesh, in fixed point
MeshArea2(m, f) ==
    LET a == m.vertices[f[1]]
        b == m.vertices[f[2]]
        c == m.vertices[f[3]]
    IN FNorm(FCross(<< b[1] - a[1], b[2] - a[2], b[3] - a[3] >>,
                    << c[1] - a[1], c[2] - a[2], c[3] - a[3] >>))

\* mesh.centroid of a fixed-point mesh of nonzero area: the mean of the
\* triangle centres weighted by triangle area
MeshCentroid(m) ==
    LET nf == Len(m.faces)
        total == SumSeq([f \in 1..nf |-> MeshArea2(m, m.faces[f])])
    IN [k \in 1..3 |->
          RDiv(SumSeq([f \in 1..nf |->
                  MeshArea2(m, m.faces[f]) * Centre3(m, m.faces[f], k)]),
               3 * total)]

\* load_mesh returned a mesh of nonzero extent
Loaded == mesh # NoMesh /\ mesh.finite

\* C14 as stated: after load_mesh of a mesh of nonzero extent, the mean of
\* the vertex positions is at the origin.
C14_VertexMeanAtOrigin ==
    Loaded => \A k \in 1..3 : Abs(VertexMean(mesh)[k]) <= Tol

\* C14: after load_mesh of a mesh of nonzero extent, the centroid of the
\* mesh as trimesh defines it (the area-weighted mean of the triangle
\* centres) is at the origin, within tolerance.
C14_CentroidAtOrigin ==
    Loaded => \A k \in 1..3 : Abs(MeshCentroid(mesh)[k]) <= Tol

C14_Witness ==
    /\ Loaded
    /\ asset.type = "Scene"
    /\ \A k \in 1..3 : Abs(MeshCentroid(mesh)[k]) <= Tol
    /\ \E k \in 1..3 : Abs(VertexMean(mesh)[k]) > Tol

\* the largest bounding-box extent of the merged input mesh, an integer
InputMaxExtent == SeqMax(extents(concatenate(asset.geoms).vertices))

\* C15: after load_mesh of a mesh of nonzero extent, the largest
\* bounding-box extent is 1.0, and every coordinate difference between two
\* vertices is the input's difference times the one factor 1 / max(extent),
\* on all three axes.
C15_UnitMaxExtentUniform ==
    Loaded =>
       /\ Abs(SeqMax(extents(mesh.vertices)) - Scale) <= Tol
       /\ \A j \in 1..Len(mesh.vertices) : \A l \in 1..Len(mesh.vertices) :
            \A k \in 1..3 :
               Abs((mesh.vertices[j][k] - mesh.vertices[l][k]) * InputMaxExtent
                   - (concatenate(asset.geoms).vertices[j][k]
                      - concatenate(asset.geoms).vertices[l][k]) * Scale)
                 <= Tol * InputMaxExtent

C15_Witness ==
    /\ Loaded
    /\ asset.type = "tuple"
    /\ extents(mesh.vertices)[1] = Scale
    /\ extents(mesh.vertices)[2] < Scale \div 2
    /\ extents(mesh.vertices)[3] > Scale \div 2
    /\ extents(mesh.vertices)[3] < Scale

\* the rasterizations written so far saw one camera pose and one light rig:
\* the camera is unrotated with its eye on the +Z axis, and the rig is the
\* one init built
SameCameraAndLights ==
    /\ pc \in {"loop", "save", "returned"} =>
          /\ lights # << >>
          /\ \A r \in 1..4 : \A c \in 1..3 : cam_pose[r][c] = Eye4[r][c]
          /\ cam_pose[1][4] = 0 /\ cam_pose[2][4] = 0 /\ cam_pose[3][4] > 0
          /\ cam_pose[4][4] = Scale
    /\ pc = "save" => color.cam = cam_pose /\ color.lights = lights
    /\ \A p \in DOMAIN files : files[p].cam = cam_pose /\ files[p].lights = lights

\* a step of the per-view loop leaves the camera pose, the lights and the
\* nodes of the scene alone, and a light rig once built is never rebuilt
LoopKeepsCameraAndLights ==
    /\ pc \in {"loop", "save"} => cam_pose' = cam_pose /\ lights' = lights
    /\ (pc \in {"loop", "save"} /\ pc' \in {"loop", "save"}) => nodes' = nodes
    /\ lights # << >> => lights' = lights

\* C16: throughout the per-view loop only the pose of the mesh node changes:
\* every view is rasterized with the same camera pose (eye on +Z) and the
\* same lights, and the lights are built once per invocation.
C16_OnlyMeshPoseChanges ==
    []SameCameraAndLights /\ [][LoopKeepsCameraAndLights]_vars

C16_Witness ==
    /\ pc = "returned"
    /\ n_views >= 2
    /\ files[PathOf(0)].pose # files[PathOf(1)].pose
    /\ files[PathOf(0)].cam = files[PathOf(1)].cam
    /\ files[PathOf(0)].lights = files[PathOf(1)].lights
    /\ Len(files[PathOf(1)].lights) = 5

\* C17: two render invocations made by the solver, one per problem, write to
\* different output directories, so none overwrites a view file of another.
C17_DisjointOutputDirs ==
    \A s \in DOMAIN sessions : \A t \in DOMAIN sessions :
        s # t => sessions[s].dir # sessions[t].dir

\* the path of the annotated copy of view j, j < 1000, spelled out
AnnotatedOf(j) ==
    [dir |-> out_dir \o << "annotated" >>,
     name |-> << "view_", DigitStr[(j \div 100) + 1],
                 DigitStr[((j \div 10) % 10) + 1],
                 DigitStr[(j % 10) + 1], "_annotated.png" >>]

\* a step of the annotation loop writes at most the annotated path of the
\* current index and leaves every other file as it is
AnnotateWritesOnlyCopy ==
    d_pc = "annotate" =>
       /\ DOMAIN files' \subseteq (DOMAIN files) \cup {AnnotatedOf(ann_i)}
       /\ \A p \in DOMAIN files :
             p # AnnotatedOf(ann_i) => p \in DOMAIN files' /\ files'[p] = files[p]

\* after the annotation loop the twelve unlabeled originals are on disk as
\* the renderer wrote them
OriginalsPreserved ==
    d_pc \in {"stage1", "stage1_wait", "stage2", "single_send", "respond"} =>
       \A k \in 0..(n_views - 1) :
          /\ PathOf(k) \in DOMAIN files
          /\ files[PathOf(k)] = Render(views[k + 1].rotation, cam_pose, lights)

\* C18: annotating view i writes only to <out_dir>/annotated/
\* view_<i:03d>_annotated.png and never to the original view_<i:03d>.png;
\* after annotation every original exists with its content unchanged.
C18_AnnotationKeepsOriginals ==
    []OriginalsPreserved /\ [][AnnotateWritesOnlyCopy]_vars

C18_Witness ==
    /\ d_pc = "stage1"
    /\ Len(image_paths) = 12
    /\ \A k \in 0..11 :
          /\ image_paths[k + 1] = AnnotatedOf(k)
          /\ files[AnnotatedOf(k)].src = files[PathOf(k)]
          /\ files[PathOf(k)] = Render(views[k + 1].rotation, cam_pose, lights)

\* a call of annotate_image on an existing view returns normally whether or
\* not the system font can be loaded, with the default font in its place
AnnotateSurvivesFont ==
    (d_pc = "annotate" /\ ann_i < n_views /\ PathOf(ann_i) \in DOMAIN files) =>
       /\ d_pc' = "annotate"
       /\ output' = output
       /\ image_paths' = Append(image_paths, AnnotatedOf(ann_i))
       /\ AnnotatedOf(ann_i) \in DOMAIN files'
       /\ files'[AnnotatedOf(ann_i)].font =
             (IF font_installed THEN "Helvetica.ttc" ELSE "load_default")

\* C19: font resolution in annotate_image never raises: when the system
\* font cannot be loaded the built-in default font is used and the
\* annotation proceeds.
C19_FontFallback == [][AnnotateSurvivesFont]_vars

C19_Witness ==
    /\ ~font_installed
    /\ d_pc = "stage1"
    /\ Len(image_paths) = 12
    /\ \A k \in 1..12 : files[image_paths[k]].font = "load_default"

\* an annotation label and a table label name the same view: the same text,
\* or the same text followed by the word View
SameView(a, t) ==
    /\ a.num = t.num
    /\ a.text = t.text \/ a.text = t.text \o " View"

\* C20: for every index i in 0..11, the label the annotation step draws on
\* view_<i:03d>.png names the same view as the label of entry i of the
\* strategic table, the entry whose rotation produced that file.
C20_LabelsAgree ==
    d_pc \in {"annotate", "stage1", "stage1_wait", "stage2", "single_send",
              "respond"} =>
       \A k \in 0..11 :
          (k < ann_i /\ AnnotatedOf(k) \in DOMAIN files) =>
             /\ SameView(files[AnnotatedOf(k)].label, views[k + 1].label)
             /\ files[AnnotatedOf(k)].src = files[PathOf(k)]
             /\ files[PathOf(k)].pose = views[k + 1].rotation
             /\ views[k + 1] = get_12_strategic_views[k + 1]

C20_Witness ==
    /\ d_pc = "stage1"
    /\ ann_i = 12
    /\ files[AnnotatedOf(4)].label.text = "Top View"
    /\ views[5].label.text = "Top"
    /\ files[AnnotatedOf(11)].label.text = "Back-Bottom-Left"
    /\ views[12].label.text = "Back-Bottom-Left"

\* the labels of the strategic table, in order
StrategicLabels ==
    << "Front", "Right", "Back", "Left", "Top", "Bottom",
       "Front-Top-Right", "Back-Top-Right", "Back-Top-Left", "Front-Top-Left",
       "Front-Bottom-Right", "Back-Bottom-Left" >>

\* the list of views of render_views_improved is the strategic table
StrategicInUse ==
    pipeline = "render_views_improved" /\ n_views = 12
    /\ pc \in {"loop", "save", "returned"}

\* C21: the strategic table has exactly 12 entries in this order: Y
\* rotations by 0, 90, 180, 270 degrees labeled Front, Right, Back, Left; X
\* rotations by -90 and +90 degrees labeled Top, Bottom; six oblique
\* entries, horizontal angle 45, 135, 225, 315, 45, 225 degrees with tilt
\* +30 (first four) or -30 (last two) degrees, each the product horizontal
\* times vertical, labeled with corner names.
C21_StrategicTable ==
    StrategicInUse =>
       /\ Len(views) = 12
       /\ \A k \in 1..12 : views[k].label = Label(StrategicLabels[k], 0)
       /\ \A k \in 1..4 : MatClose(views[k].rotation, YRot(k - 1, 4))
       /\ MatClose(views[5].rotation, XRot(-1, 4))
       /\ MatClose(views[6].rotation, XRot(1, 4))
       /\ \A k \in 1..6 :
             /\ ObliqueH[k] \in {1, 3, 5, 7}
             /\ ObliqueV[k] \in {1, -1}
             /\ MatClose(views[k + 6].rotation,
                         MatMul(YRot(ObliqueH[k], 8), XRot(ObliqueV[k], 12)))

C21_Witness ==
    /\ StrategicInUse
    /\ pc = "loop"
    /\ Len(views) = 12
    /\ views[11].label.text = "Front-Bottom-Right"
    /\ MatClose(views[11].rotation, MatMul(YRot(1, 8), XRot(-1, 12)))
    /\ ~MatClose(views[11].rotation, MatMul(XRot(-1, 12), YRot(1, 8)))
    /\ ~MatClose(views[11].rotation, MatMul(YRot(1, 8), XRot(1, 12)))

\* C22: in the benchmark scripts the request loop of one question sends at
\* most 5 requests, and goes on to the next question even when every
\* response is too long.
C22_RequestsBounded == requests <= MaxRetries

\* the annotated path of view j with the suffix of problem p, spelled out
SuffixedAnnotatedOf(j, p) ==
    [dir |-> out_dir \o << "annotated" >>,
     name |-> << "view_", DigitStr[(j \div 100) + 1],
                 DigitStr[((j \div 10) % 10) + 1], DigitStr[(j % 10) + 1],
                 "_annotated", "_problem_" >> \o Digits(p) \o << ".png" >>]

\* C23: generate_rotated_images(..., problem_num=p) of
\* claude_spatial_reasoning_improved.py renders the views and returns the n
\* annotated paths with the suffix _problem_<p>: the call of the render
\* pipeline is not what fails, and once the paths are returned there are
\* twelve of them, each carrying the suffix.
C23_RendersWithSuffix ==
    script = "claude_spatial_reasoning_improved" =>
       /\ (d_pc = "render" /\ pc = "raised") =>
             error.site # "generate_rotated_images"
       /\ d_pc \in {"stage1", "stage1_wait", "stage2", "single_send",
                    "respond"} =>
             /\ Len(image_paths) = 12
             /\ \A k \in 0..11 :
                   image_paths[k + 1] = SuffixedAnnotatedOf(k, problem)

(***************************************************************************)
(* C24: a rasterization failure aborts the invocation                      *)
(***************************************************************************)
\* the invocation has failed in renderer.render, at loop index i
RasterFailed == error.site = "renderer.render"

\* the files on disk are exactly view_000 .. view_(k-1)
PrefixOnDisk(k) == DOMAIN files = { PathOf(j) : j \in 0..(k - 1) }

\* C24: once rasterization has failed at view index k the invocation is
\* over: the files on disk are exactly view_000 .. view_(k-1), and from
\* then on nothing is rasterized (the last image stays the one of view
\* k-1), no file is written or removed and the loop index does not move.
C24_RasterFailureAborts ==
    /\ [](RasterFailed => /\ pc = "raised"
                          /\ i < LoopLimit(pipeline, n_views, views)
                          /\ PrefixOnDisk(i)
                          /\ i > 0 => color.pose = files[PathOf(i - 1)].pose)
    /\ [][RasterFailed => /\ pc' = "raised"
                          /\ i' = i
                          /\ color' = color
                          /\ files' = files]_vars

C24_Witness ==
    /\ RasterFailed
    /\ pc = "raised"
    /\ i = 2
    /\ n_views >= 4
    /\ PathOf(1) \in DOMAIN files
    /\ PathOf(2) \notin DOMAIN files

(***************************************************************************)
(* C25: poses are absolute and the mesh data is left alone                 *)
(***************************************************************************)
\* C25: whenever view i is rasterized, successfully or not, the mesh
\* node's pose is exactly the rotation of ViewSpec i, and the image taken
\* shows that pose; no step of the per-view loop changes the normalized
\* mesh's vertex data.
C25_AbsolutePoses ==
    /\ [](pc = "save" => /\ mesh_pose = ViewSpecRotation(i)
                         /\ color.pose = ViewSpecRotation(i))
    /\ [](RasterFailed => mesh_pose = ViewSpecRotation(i))
    /\ [][(pc \in {"loop", "save"}) => mesh' = mesh]_vars

C25_Witness ==
    /\ pc = "save"
    /\ i = 2
    /\ mesh_pose = ViewSpecRotation(2)
    /\ mesh_pose # MatMul(ViewSpecRotation(1), ViewSpecRotation(2))
    /\ mesh_pose # ViewSpecRotation(1)

(***************************************************************************)
(* C26: orientation of the lights of the enhanced rig                      *)
(***************************************************************************)
\* the position a pose places its node at (the translation column)
PositionOf(M) == << M[1][4] \div Scale, M[2][4] \div Scale, M[3][4] \div Scale >>

\* the direction a directional light with pose M emits along: the node's
\* local -Z axis in world coordinates, minus the third column of M
EmissionDir(M) == << -M[1][3], -M[2][3], -M[3][3] >>

\* the unit direction from the position of pose M to the origin
TowardOrigin(M) ==
    LET p == PositionOf(M) IN Normalize(<< -p[1], -p[2], -p[3] >>)

\* C26: every light of the enhanced rig emits toward the origin: minus
\* the third column of its pose is the unit vector from its position to
\* the origin.
C26_LightsFaceOrigin ==
    pipeline = "render_views_improved" =>
        \A k \in 1..Len(lights) :
            VecClose(EmissionDir(lights[k].pose), TowardOrigin(lights[k].pose))

(***************************************************************************)
(* C27: the image numbers the prompts name                                 *)
(***************************************************************************)
\* the label drawn on the image announced as 'Image k:' of the request
LabelOfImage(k) == files[content[k].path].label

\* C27: in every request that carries the annotated views after one
\* leading image, the images numbered 5 and 6 are the Top view and the
\* Bottom view.
C27_TopBottomAreImages5And6 ==
    (d_pc \in {"stage1_wait", "stage2", "respond"} /\ Len(content) >= 7) =>
        /\ \A k \in 1..Len(content) : content[k].number = k
        /\ LabelOfImage(5) = Label("Top View", 0)
        /\ LabelOfImage(6) = Label("Bottom View", 0)

(***************************************************************************)
(* C28: the faces the axis-aligned strategic views show                    *)
(***************************************************************************)
\* the outward direction of the face of the object a label names, in the
\* object's own axes
FaceNormal(text) ==
    CASE text = "Front"  -> << 0, 0, Scale >>
      [] text = "Right"  -> << Scale, 0, 0 >>
      [] text = "Back"   -> << 0, 0, -Scale >>
      [] text = "Left"   -> << -Scale, 0, 0 >>
      [] text = "Top"    -> << 0, Scale, 0 >>
      [] text = "Bottom" -> << 0, -Scale, 0 >>

\* the direction from the origin to the fixed camera
TowardCamera == << 0, 0, Scale >>

\* C28: each of the six axis-aligned entries of the strategic table in use
\* turns the face its label names toward the camera.
C28_LabelNamesFacingFace ==
    StrategicInUse =>
        \A k \in 1..6 :
            VecClose(Apply(views[k].rotation, FaceNormal(views[k].label.text)),
                     TowardCamera)

(***************************************************************************)
(* C29: one rasterization context at a time across the problem loop        *)
(***************************************************************************)
\* C29: at any time of the sequential problem loop at most one
\* rasterization context is acquired and not yet released.
C29_AtMostOneContext == live_contexts <= 1

(***************************************************************************)
(* get_meshy_model (src/generate_glb_files.py and the solver scripts)      *)
(***************************************************************************)
\* the files that define get_meshy_model, all with the same polling loop
MeshySources == {"generate_glb_files", "claude_spatial_reasoning",
                 "claude_spatial_reasoning_improved",
                 "claude_spatial_reasoning_improved_2"}

\* largest number of status requests of one call that is followed
MaxPolls == 4

\* statuses of the remote image-to-3d task from which it never moves
TerminalFailures == {"FAILED", "CANCELED"}

\* where the loop goes after reading the status: break on SUCCEEDED,
\* print, sleep and poll again on anything else
AfterStatus(status) == IF status = "SUCCEEDED" THEN "download" ELSE "sleep"

InitMeshy ==
    /\ RotIdle
    /\ PipeIdle
    /\ DriverIdle
    /\ BenchIdle
    /\ m_src \in MeshySources
    /\ m_pc = "post"
    /\ task_status = "none"
    /\ polls = 0
    /\ model_file = FALSE
    /\ m_error = "none"

\* requests.post(...) succeeds: the task exists and its id is kept
Submit ==
    /\ m_pc = "post"
    /\ task_status' = "PENDING"
    /\ m_pc' = "poll"
    /\ UNCHANGED << rotvars, pipevars, drivervars, benchvars, m_src, polls,
                    model_file, m_error >>

\* response.raise_for_status() raises after the post
SubmitFails ==
    /\ m_pc = "post"
    /\ m_pc' = "raised"
    /\ m_error' = "post"
    /\ UNCHANGED << rotvars, pipevars, drivervars, benchvars, m_src,
                    task_status, polls, model_file >>

\* the remote service works on the task: PENDING, IN_PROGRESS, then one
\* of the terminal statuses; a pending task may be canceled
TaskProgress ==
    /\ m_pc \in {"poll", "sleep"}
    /\ \/ task_status = "PENDING" /\ task_status' \in {"IN_PROGRESS", "CANCELED"}
       \/ /\ task_status = "IN_PROGRESS"
          /\ task_status' \in {"SUCCEEDED"} \cup TerminalFailures
    /\ UNCHANGED << rotvars, pipevars, drivervars, benchvars, m_src, m_pc,
                    polls, model_file, m_error >>

\* one pass of the while True body: the status request answers, and the
\* status read decides between break and sleep
Poll ==
    /\ m_pc = "poll"
    /\ polls < MaxPolls
    /\ polls' = polls + 1
    /\ m_pc' = AfterStatus(task_status)
    /\ UNCHANGED << rotvars, pipevars, drivervars, benchvars, m_src,
                    task_status, model_file, m_error >>

\* preview_task_response.raise_for_status() raises
PollFails ==
    /\ m_pc = "poll"
    /\ polls < MaxPolls
    /\ polls' = polls + 1
    /\ m_pc' = "raised"
    /\ m_error' = "status"
    /\ UNCHANGED << rotvars, pipevars, drivervars, benchvars, m_src,
                    task_status, model_file >>

\* time.sleep(5) is over: back to the top of the loop
Sleep ==
    /\ m_pc = "sleep"
    /\ m_pc' = "poll"
    /\ UNCHANGED << rotvars, pipevars, drivervars, benchvars, m_src,
                    task_status, polls, model_file, m_error >>

\* the model is fetched and written to output_file_path; the call returns
Download ==
    /\ m_pc = "download"
    /\ model_file' = TRUE
    /\ m_pc' = "returned"
    /\ UNCHANGED << rotvars, pipevars, drivervars, benchvars, m_src,
                    task_status, polls, m_error >>

\* the download's raise_for_status() or the write raises
DownloadFails ==
    /\ m_pc = "download"
    /\ m_pc' = "raised"
    /\ m_error' = "download"
    /\ UNCHANGED << rotvars, pipevars, drivervars, benchvars, m_src,
                    task_status, polls, model_file >>

NextMeshy ==
    \/ Submit
    \/ SubmitFails
    \/ TaskProgress
    \/ Poll
    \/ PollFails
    \/ Sleep
    \/ Download
    \/ DownloadFails

SpecMeshy == InitMeshy /\ [][NextMeshy]_vars

(***************************************************************************)
(* C30: the polling loop and terminal task statuses                        *)
(***************************************************************************)
\* C30: a status request that finds the task SUCCEEDED leaves the loop for
\* the download, after which the call returns with the model written; a
\* status request that finds the task in a terminal non-success status
\* ends the call with an error instead of sleeping and polling again.
C30_TerminalStatusEndsPolling ==
    /\ [](m_pc = "returned" => model_file /\ task_status = "SUCCEEDED")
    /\ [][(m_pc = "poll" /\ polls' # polls) =>
             /\ task_status = "SUCCEEDED" => m_pc' \in {"download", "raised"}
             /\ task_status \in TerminalFailures => m_pc' = "raised"]_vars

====
